---- MODULE Spec2Model ----
(***************************************************************************)
(* A model of xnatutils.py: identifier classification and resolution       *)
(* (is_regex, ls, matching_sessions, matching_scans) and the per-scan      *)
(* retrieval pipeline of get().                                            *)
(*                                                                         *)
(* Strings that the code inspects character by character (ids, patterns,   *)
(* scan types, paths) are sequences of one-character strings.  Data-format *)
(* labels, which the code only compares, upper-cases and looks up, are     *)
(* atomic strings.  Python's None is the value None.                       *)
(***************************************************************************)
EXTENDS Integers, Sequences, FiniteSets, TLC

None == "None"

(***************************************************************************)
(* Bounds of the model.                                                    *)
(***************************************************************************)
\* longest list of scans a session of the modelled archive holds
MaxScans == 2
\* longest list of ids handed to ls()
MaxIds == 2
MaxPathLen == 3

(***************************************************************************)
(* Characters.                                                             *)
(***************************************************************************)
\* the members of \w (and of [a-zA-Z_0-9]) that the model's strings use
WordChars == {"p", "q", "s", "t", "m", "n", "d", "x", "1", "2", "3", "4", "5", "_"}

NL == "\n"

Join(a, b) == a \o <<"/">> \o b

\* str.count('_')
CountUnderscores(s) == Cardinality({k \in 1..Len(s) : s[k] = "_"})

\* str.split('_')
RECURSIVE SplitUnderscore(_)
SplitUnderscore(s) ==
    IF \A k \in 1..Len(s) : s[k] # "_"
    THEN <<s>>
    ELSE LET k == CHOOSE k \in 1..Len(s) :
                      s[k] = "_" /\ \A l \in 1..(k - 1) : s[l] # "_"
         IN  <<SubSeq(s, 1, k - 1)>> \o SplitUnderscore(SubSeq(s, k + 1, Len(s)))

\* '_'.join(parts)
RECURSIVE JoinUnderscore(_)
JoinUnderscore(parts) ==
    IF Len(parts) = 0 THEN <<>>
    ELSE IF Len(parts) = 1 THEN parts[1]
    ELSE parts[1] \o <<"_">> \o JoinUnderscore(Tail(parts))

\* sanitize_re.sub('_', s)
Sanitize(s) == [k \in 1..Len(s) |-> IF s[k] \in WordChars THEN s[k] ELSE "_"]

\* ord(c) of the characters the model's strings use
Ord(c) ==
    CASE c = NL -> 10 [] c = " " -> 32 [] c = "*" -> 42 [] c = "-" -> 45
      [] c = "." -> 46 [] c = "/" -> 47 [] c = "1" -> 49 [] c = "2" -> 50
      [] c = "3" -> 51 [] c = "4" -> 52 [] c = "5" -> 53 [] c = "_" -> 95
      [] c = "d" -> 100 [] c = "m" -> 109 [] c = "n" -> 110 [] c = "p" -> 112
      [] c = "q" -> 113 [] c = "s" -> 115 [] c = "t" -> 116 [] c = "x" -> 120

\* a <= b for strings
RECURSIVE StrLeq(_, _)
StrLeq(a, b) ==
    IF Len(a) = 0 THEN TRUE
    ELSE IF Len(b) = 0 THEN FALSE
    ELSE IF a[1] = b[1] THEN StrLeq(Tail(a), Tail(b))
    ELSE Ord(a[1]) < Ord(b[1])

\* sorted(q) for a list of strings
Sorted(q) ==
    LET n == Len(q)
        f == CHOOSE f \in [1..n -> 1..n] :
                /\ \A a, b \in 1..n : a # b => f[a] # f[b]
                /\ \A a, b \in 1..n : a < b => StrLeq(q[f[a]], q[f[b]])
    IN  [k \in 1..n |-> q[f[k]]]

(***************************************************************************)
(* The format registry.                                                    *)
(***************************************************************************)
RegistryLabels ==
    {"NIFTI", "NIFTI_GZ", "MRTRIX", "DICOM", "secondary", "TEXT_MATRIX",
     "MRTRIX_GRAD", "FSL_BVECS", "FSL_BVALS", "MATLAB", "ANALYZE", "ZIP",
     "RDATA", "DAT"}

data_format_exts ==
    [l \in RegistryLabels |->
        CASE l = "NIFTI"       -> <<".", "n", "i", "i">>
          [] l = "NIFTI_GZ"    -> <<".", "n", "i", "i", ".", "g", "z">>
          [] l = "MRTRIX"      -> <<".", "m", "i", "f">>
          [] l = "DICOM"       -> <<>>
          [] l = "secondary"   -> <<>>
          [] l = "TEXT_MATRIX" -> <<".", "m", "a", "t">>
          [] l = "MRTRIX_GRAD" -> <<".", "b">>
          [] l = "FSL_BVECS"   -> <<".", "b", "v", "e", "c">>
          [] l = "FSL_BVALS"   -> <<".", "b", "v", "a", "l">>
          [] l = "MATLAB"      -> <<".", "m", "a", "t">>
          [] l = "ANALYZE"     -> <<".", "i", "m", "g">>
          [] l = "ZIP"         -> <<".", "z", "i", "p">>
          [] l = "RDATA"       -> <<".", "r", "d", "a", "t", "a">>
          [] l = "DAT"         -> <<".", "d", "a", "t">>]

\* str.upper() on the format names the model's callers pass
Upper(s) ==
    CASE s = "nifti"    -> "NIFTI"
      [] s = "nifti_gz" -> "NIFTI_GZ"
      [] s = "mrtrix"   -> "MRTRIX"
      [] s = "dicom"    -> "DICOM"
      [] OTHER          -> s

(***************************************************************************)
(* Regular expressions: the fragment of Python's re that the model's       *)
(* patterns use (literal characters, '.', and a postfix '*').              *)
(***************************************************************************)
AtomMatches(atom, c) == IF atom = "." THEN c # NL ELSE c = atom

\* the positions of s at which a match of p[i..] that starts at j can end
RECURSIVE MatchEnds(_, _, _, _)
MatchEnds(p, i, s, j) ==
    IF i > Len(p) THEN {j}
    ELSE IF i < Len(p) /\ p[i + 1] = "*"
    THEN LET run == {k \in j..(Len(s) + 1) :
                        \A l \in j..(k - 1) : AtomMatches(p[i], s[l])}
         IN  UNION {MatchEnds(p, i + 2, s, k) : k \in run}
    ELSE IF j <= Len(s) /\ AtomMatches(p[i], s[j])
    THEN MatchEnds(p, i + 1, s, j + 1)
    ELSE {}

\* '$' without re.MULTILINE: the end of the string, or just before a newline
\* that ends the string
AtDollar(s, k) == k = Len(s) + 1 \/ (k = Len(s) /\ s[Len(s)] = NL)

\* re.match(p, s) is not None
ReMatch(p, s) == MatchEnds(p, 1, s, 1) # {}

\* re.match(p + '$', s) is not None
ReMatchDollar(p, s) == \E k \in MatchEnds(p, 1, s, 1) : AtDollar(s, k)

\* re.match(r'^\w+$', i) is not None
WordMatch(i) ==
    \E k \in 1..Len(i) :
        /\ \A l \in 1..k : i[l] \in WordChars
        /\ AtDollar(i, k + 1)

\* is_regex(ids), ids a list of strings
is_regex(ids) == ~ \A k \in 1..Len(ids) : WordMatch(ids[k])

(***************************************************************************)
(* The archive behind the connection mbi_xnat: a record                    *)
(*   projects    : the list of project ids,                                *)
(*   subjects    : the list of [label, project],                           *)
(*   experiments : the list of [label, project, subject, scans],           *)
(*   fault       : the failure the next listing call meets ("none", a      *)
(*                 status code, or "nostatus" for a response error whose   *)
(*                 text carries no status).                                *)
(* A scan is [id, type, resources], resources the set of its labels.       *)
(***************************************************************************)
SeqToSet(q) == {q[k] : k \in 1..Len(q)}

\* every ordering of a finite set as a list
Orderings(S) ==
    {f \in [1..Cardinality(S) -> S] : \A a, b \in 1..Cardinality(S) :
                                          a # b => f[a] # f[b]}

Labels(q) == [k \in 1..Len(q) |-> q[k].label]

\* mbi_xnat.projects[id_], mbi_xnat.subjects[id_], mbi_xnat.experiments[id_]
HasProject(mbi_xnat, id_) == id_ \in SeqToSet(mbi_xnat.projects)
HasSubject(mbi_xnat, id_) == id_ \in SeqToSet(Labels(mbi_xnat.subjects))
HasExperiment(mbi_xnat, id_) == id_ \in SeqToSet(Labels(mbi_xnat.experiments))
Experiment(mbi_xnat, id_) ==
    CHOOSE e \in SeqToSet(mbi_xnat.experiments) : e.label = id_

\* str(e) of the XNATResponseError the remote answers a missing path with
NotFoundMessage == "not found (status 404)"

\* the messages of the XNATResponseErrors the remote can answer with
RemoteMessages ==
    {NotFoundMessage, "server error (status 500)", "gone (status 4040)",
     "status 404", "connection reset"}

\* re.search(r'\(status (\d+)\)', str(e)): the status code of the message, or
\* None when the message holds none
StatusCode(message) ==
    CASE message = "not found (status 404)" -> "404"
      [] message = "server error (status 500)" -> "500"
      [] message = "gone (status 4040)" -> "4040"
      [] OTHER -> None

\* mbi_xnat.get_json('/data/archive/' + path): the rows, or the message of the
\* XNATResponseError.  A path is the list of its components.
get_json(mbi_xnat, path) ==
    LET ofProject(r) == r.project = path[2]
        ofSubject(r) == r.subject = path[2]
        ok(rows) == [status |-> "ok", rows |-> rows, message |-> None]
        failed(message) ==
            [status |-> "XNATResponseError", rows |-> <<>>, message |-> message]
        notFound == failed(NotFoundMessage)
    IN  IF mbi_xnat.fault # "none"
        THEN failed(mbi_xnat.fault)
        ELSE CASE path = <<"projects">> -> ok(mbi_xnat.projects)
               [] path = <<"subjects">> -> ok(Labels(mbi_xnat.subjects))
               [] path = <<"experiments">> -> ok(Labels(mbi_xnat.experiments))
               [] Len(path) = 3 /\ path[1] = "projects" /\ path[3] = "subjects" ->
                    IF HasProject(mbi_xnat, path[2])
                    THEN ok(Labels(SelectSeq(mbi_xnat.subjects, ofProject)))
                    ELSE notFound
               [] Len(path) = 3 /\ path[1] = "projects" /\ path[3] = "experiments" ->
                    IF HasProject(mbi_xnat, path[2])
                    THEN ok(Labels(SelectSeq(mbi_xnat.experiments, ofProject)))
                    ELSE notFound
               [] Len(path) = 3 /\ path[1] = "subjects" /\ path[3] = "experiments" ->
                    IF HasSubject(mbi_xnat, path[2])
                    THEN ok(Labels(SelectSeq(mbi_xnat.experiments, ofSubject)))
                    ELSE notFound
               [] Len(path) = 3 /\ path[1] = "experiments" /\ path[3] = "scans" ->
                    IF HasExperiment(mbi_xnat, path[2])
                    THEN LET scans == Experiment(mbi_xnat, path[2]).scans
                         IN  ok([k \in 1..Len(scans) |-> scans[k].type])
                    ELSE notFound
               [] OTHER -> notFound

\* what an exception of the resolvers carries: the path of XnatUtilsLookupError,
\* the remote message or the id named in the message of XnatUtilsUsageError
NoArgs == [path |-> <<>>, msg |-> None, id |-> <<>>]

\* list_results that takes every failed request for a missing path
list_resultsAlwaysLookup(mbi_xnat, path) ==
    LET response == get_json(mbi_xnat, path)
    IN  IF response.status = "ok"
        THEN [status |-> "ok", results |-> response.rows, path |-> path,
              error |-> NoArgs]
        ELSE [status |-> "XnatUtilsLookupError", results |-> <<>>,
              path |-> path, error |-> [NoArgs EXCEPT !.path = path]]

\* list_results(mbi_xnat, path, attr): [status |-> "ok", results] or the
\* exception raised
list_results(mbi_xnat, path) ==
    LET response == get_json(mbi_xnat, path)
        status_code == StatusCode(response.message)
    IN  IF response.status = "ok"
        THEN [status |-> "ok", results |-> response.rows, path |-> path,
              error |-> NoArgs]
        ELSE IF status_code = "404"
        THEN [status |-> "XnatUtilsLookupError", results |-> <<>>,
              path |-> path, error |-> [NoArgs EXCEPT !.path = path]]
        ELSE [status |-> "XnatUtilsUsageError", results |-> <<>>,
              path |-> path, error |-> [NoArgs EXCEPT !.msg = response.message]]

\* matching_sessions' literal branch that looks every session id up in the
\* archive
RECURSIVE LiteralSessionsLookedUp(_, _, _, _, _)
LiteralSessionsLookedUp(mbi_xnat, session_ids, k, sessions, calls) ==
    IF k > Len(session_ids)
    THEN [status |-> "ok", sessions |-> sessions, calls |-> calls,
          error |-> NoArgs]
    ELSE
    LET id_ == session_ids[k]
        raise(e, c, a) == [status |-> e, sessions |-> {}, calls |-> c, error |-> a]
        named == [NoArgs EXCEPT !.id = id_]
        listed(path) ==
            LET r == list_results(mbi_xnat, path)
            IN  IF r.status = "ok"
                THEN LiteralSessionsLookedUp(mbi_xnat, session_ids, k + 1,
                                             sessions \cup SeqToSet(r.results),
                                             Append(calls, path))
                ELSE raise(r.status, Append(calls, path), r.error)
    IN  IF CountUnderscores(id_) = 0
        THEN IF HasProject(mbi_xnat, id_)
             THEN listed(<<"projects", id_, "experiments">>)
             ELSE raise("XnatUtilsUsageError", calls, named)
        ELSE IF CountUnderscores(id_) = 1
        THEN IF HasSubject(mbi_xnat, id_)
             THEN listed(<<"subjects", id_, "experiments">>)
             ELSE raise("XnatUtilsUsageError", calls, named)
        ELSE IF CountUnderscores(id_) = 2
        THEN IF HasExperiment(mbi_xnat, id_)
             THEN LiteralSessionsLookedUp(mbi_xnat, session_ids, k + 1,
                                          sessions \cup {id_}, calls)
             ELSE raise("XnatUtilsUsageError", calls, named)
        ELSE raise("XnatUtilsUsageError", calls, named)

\* matching_sessions, the literal branch from the k-th id on: sessions is the
\* set built so far, calls the listing paths requested so far
RECURSIVE LiteralSessions(_, _, _, _, _)
LiteralSessions(mbi_xnat, session_ids, k, sessions, calls) ==
    IF k > Len(session_ids)
    THEN [status |-> "ok", sessions |-> sessions, calls |-> calls,
          error |-> NoArgs]
    ELSE
    LET id_ == session_ids[k]
        raise(e, c, a) == [status |-> e, sessions |-> {}, calls |-> c, error |-> a]
        named == [NoArgs EXCEPT !.id = id_]
        listed(path) ==
            LET r == list_results(mbi_xnat, path)
            IN  IF r.status = "ok"
                THEN LiteralSessions(mbi_xnat, session_ids, k + 1,
                                     sessions \cup SeqToSet(r.results),
                                     Append(calls, path))
                ELSE raise(r.status, Append(calls, path), r.error)
    IN  IF CountUnderscores(id_) = 0
        THEN IF HasProject(mbi_xnat, id_)
             THEN listed(<<"projects", id_, "experiments">>)
             ELSE raise("XnatUtilsUsageError", calls, named)
        ELSE IF CountUnderscores(id_) = 1
        THEN IF HasSubject(mbi_xnat, id_)
             THEN listed(<<"subjects", id_, "experiments">>)
             ELSE raise("XnatUtilsUsageError", calls, named)
        ELSE IF CountUnderscores(id_) = 2
        THEN LiteralSessions(mbi_xnat, session_ids, k + 1,
                             sessions \cup {id_}, calls)
        ELSE raise("XnatUtilsUsageError", calls, named)

\* matching_sessions(mbi_xnat, session_ids): the exception raised, or the
\* lists the call can return (one for a pattern, any ordering of the set for
\* literal ids), with the listing calls made
matching_sessions(mbi_xnat, session_ids) ==
    IF is_regex(session_ids)
    THEN LET r == list_results(mbi_xnat, <<"experiments">>)
             hit(s) == \E k \in 1..Len(session_ids) : ReMatch(session_ids[k], s)
         IN  IF r.status = "ok"
             THEN [status |-> "ok", lists |-> {SelectSeq(r.results, hit)},
                   calls |-> <<r.path>>, error |-> NoArgs]
             ELSE [status |-> r.status, lists |-> {}, calls |-> <<r.path>>,
                   error |-> r.error]
    ELSE LET r == LiteralSessions(mbi_xnat, session_ids, 1, {}, <<>>)
         IN  [status |-> r.status, lists |-> Orderings(r.sessions),
              calls |-> r.calls, error |-> r.error]

\* matching_subjects, the literal branch from the k-th id on
RECURSIVE LiteralSubjects(_, _, _, _, _)
LiteralSubjects(mbi_xnat, subject_ids, k, subjects, calls) ==
    IF k > Len(subject_ids)
    THEN [status |-> "ok", subjects |-> subjects, calls |-> calls,
          error |-> NoArgs]
    ELSE
    LET id_ == subject_ids[k]
        path == <<"projects", id_, "subjects">>
        r == list_results(mbi_xnat, path)
    IN  IF r.status = "ok"
        THEN LiteralSubjects(mbi_xnat, subject_ids, k + 1,
                             subjects \cup SeqToSet(r.results),
                             Append(calls, path))
        ELSE IF r.status = "XnatUtilsLookupError"
        THEN [status |-> "XnatUtilsUsageError", subjects |-> {},
              calls |-> Append(calls, path),
              error |-> [NoArgs EXCEPT !.id = id_]]
        ELSE [status |-> r.status, subjects |-> {},
              calls |-> Append(calls, path), error |-> r.error]

\* matching_subjects(mbi_xnat, subject_ids), as matching_sessions
matching_subjects(mbi_xnat, subject_ids) ==
    IF is_regex(subject_ids)
    THEN LET r == list_results(mbi_xnat, <<"subjects">>)
             hit(s) == \E k \in 1..Len(subject_ids) : ReMatch(subject_ids[k], s)
         IN  IF r.status = "ok"
             THEN [status |-> "ok", lists |-> {SelectSeq(r.results, hit)},
                   calls |-> <<r.path>>, error |-> NoArgs]
             ELSE [status |-> r.status, lists |-> {}, calls |-> <<r.path>>,
                   error |-> r.error]
    ELSE LET r == LiteralSubjects(mbi_xnat, subject_ids, 1, {}, <<>>)
         IN  [status |-> r.status, lists |-> Orderings(r.subjects),
              calls |-> r.calls, error |-> r.error]

\* matching_scans(session, scan_types): scan_types is [k |-> "none"], a list
\* of patterns [k |-> "patterns", v |-> ...], or an object that is not iterable
\* [k |-> "object", v |-> ...]
matching_scans(session, scan_types) ==
    LET hit(s) == \E k \in 1..Len(scan_types.v) : ReMatchDollar(scan_types.v[k], s.type)
    IN  IF scan_types.k = "none"
        THEN [status |-> "ok", scans |-> session.scans]
        ELSE IF scan_types.k = "patterns"
        THEN [status |-> "ok", scans |-> SelectSeq(session.scans, hit)]
        ELSE IF Len(session.scans) = 0
        THEN [status |-> "ok", scans |-> <<>>]
        ELSE [status |-> "TypeError", scans |-> <<>>]

\* a search of the path that keeps the first directory that holds the name
RECURSIVE FindFirstFrom(_, _, _, _)
FindFirstFrom(path_dirs, name, k, path) ==
    IF k > Len(path_dirs) THEN path
    ELSE FindFirstFrom(path_dirs, name, k + 1,
                       IF name \in path_dirs[k].names /\ path = None
                       THEN path_dirs[k].prefix ELSE path)

\* find_executable(name): the path is the list of its directories, each
\* [prefix, names] with names the set of the file names that exist in it; the
\* result is the prefix of the returned path, None for no path
RECURSIVE FindFrom(_, _, _, _)
FindFrom(path_dirs, name, k, path) ==
    IF k > Len(path_dirs) THEN path
    ELSE FindFrom(path_dirs, name, k + 1,
                  IF name \in path_dirs[k].names THEN path_dirs[k].prefix ELSE path)

find_executable(path_dirs, name) == FindFrom(path_dirs, name, 1, None)

(***************************************************************************)
(* The state of one call of get().                                         *)
(***************************************************************************)
VARIABLES
    args,             \* the arguments of the call
    mbi_xnat,         \* the archive
    PATH,             \* os.environ['PATH']
    pc,               \* the position of the call
    err,              \* the exception that ended the call and the position
                      \* it was raised at
    connected,        \* whether connect() has been called
    matched_sessions, \* the list get() iterates over
    si,               \* index of the session of the outer loop
    scans_iter,       \* the list the inner loop iterates over
    ci,               \* index of the scan of the inner loop
    scan,             \* the local variable scan (at first the argument)
    data_format,      \* the local variable data_format (at first the argument)
    loc,              \* the other locals of the loop body
    dirs,             \* directories created under download_dir
    staging,          \* download directories that exist
    files,            \* artifacts deposited under download_dir
    downloads,        \* the resources downloaded, in order
    invoked,          \* the converter command lines run, in order
    failures,         \* the converter runs that exited non-zero, in order
    warnings,         \* the warnings printed, in order
    num_sessions,
    num_scans,
    outcome           \* what the call printed last

vars == <<args, mbi_xnat, PATH, pc, err, connected, matched_sessions, si,
          scans_iter, ci, scan, data_format, loc, dirs, staging, files,
          downloads, invoked, failures, warnings, num_sessions, num_scans, outcome>>

\* the caller's download_dir
download_dir == <<"r">>

NoLocals ==
    [scan_name |-> <<>>, scan_label |-> <<>>, target_dir |-> <<>>,
     target_ext |-> <<>>, target_path |-> <<>>, tmp_dir |-> <<>>,
     dcm2niix |-> None, mrconvert |-> None]

\* the session the outer loop is at
session_label == matched_sessions[si]

NoError == [type |-> None, at |-> None]

Raise(e) ==
    /\ pc' = "raised"
    /\ err' = [type |-> e, at |-> pc]

(***************************************************************************)
(* get(), lines 89-96: connect and resolve the sessions.                   *)
(***************************************************************************)
GetResolve ==
    /\ pc = "start"
    /\ connected' = TRUE
    /\ LET r == matching_sessions(mbi_xnat, args.session)
       IN  IF r.status # "ok"
           THEN Raise(r.status) /\ UNCHANGED <<matched_sessions, si>>
           ELSE \E lst \in r.lists :
                   IF Len(lst) = 0
                   THEN Raise("XnatUtilsUsageError")
                        /\ UNCHANGED <<matched_sessions, si>>
                   ELSE /\ matched_sessions' = lst
                        /\ si' = 1
                        /\ pc' = "session"
                        /\ UNCHANGED err
    /\ UNCHANGED <<args, mbi_xnat, PATH, scans_iter, ci, scan, data_format,
                   loc, dirs, staging, files, downloads, invoked, failures, warnings,
                   num_sessions, num_scans, outcome>>

(***************************************************************************)
(* Lines 97-99: the head of the outer loop; the iterable of the inner loop *)
(* is evaluated once, with the current value of the local scan.            *)
(***************************************************************************)
GetNextSession ==
    /\ pc = "session"
    /\ IF si > Len(matched_sessions)
       THEN /\ pc' = "aggregate"
            /\ UNCHANGED <<err, scans_iter, ci>>
       ELSE IF ~ HasExperiment(mbi_xnat, session_label)
       THEN Raise("KeyError") /\ UNCHANGED <<scans_iter, ci>>
       ELSE LET r == matching_scans(Experiment(mbi_xnat, session_label), scan)
            IN  IF r.status # "ok"
                THEN Raise(r.status) /\ UNCHANGED <<scans_iter, ci>>
                ELSE /\ scans_iter' = r.scans
                     /\ ci' = 1
                     /\ pc' = "scan"
                     /\ UNCHANGED err
    /\ UNCHANGED <<args, mbi_xnat, PATH, connected, matched_sessions, si, scan,
                   data_format, loc, dirs, staging, files, downloads, invoked,
                   failures, warnings, num_sessions, num_scans, outcome>>

(***************************************************************************)
(* Line 220: the inner loop is exhausted.                                  *)
(***************************************************************************)
GetEndSession ==
    /\ pc = "scan"
    /\ ci > Len(scans_iter)
    /\ num_sessions' = num_sessions + 1
    /\ si' = si + 1
    /\ pc' = "session"
    /\ UNCHANGED <<args, mbi_xnat, PATH, err, connected, matched_sessions,
                   scans_iter, ci, scan, data_format, loc, dirs, staging,
                   files, downloads, invoked, failures, warnings, num_scans, outcome>>

\* lines 105-107: the registry labels among the scan's resources
KnownFormats(s) == {l \in s.resources : l \in DOMAIN data_format_exts}

(***************************************************************************)
(* Lines 99-118: the loop variable scan is bound, the names are built and  *)
(* the data format is selected.                                            *)
(***************************************************************************)
SelectFormat ==
    /\ pc = "scan"
    /\ ci <= Len(scans_iter)
    /\ LET s == scans_iter[ci]
           scan_name == Sanitize(s.type)
       IN  /\ scan' = [k |-> "object", v |-> s]
           /\ loc' = [NoLocals EXCEPT !.scan_name = scan_name,
                                      !.scan_label = s.id \o <<"-">> \o scan_name]
           /\ IF data_format # None
              THEN /\ data_format' = Upper(data_format)
                   /\ pc' = "build_paths"
                   /\ UNCHANGED err
              ELSE IF Cardinality(KnownFormats(s)) # 1
              THEN Raise("XnatUtilsUsageError") /\ UNCHANGED data_format
              ELSE /\ data_format' = CHOOSE l \in KnownFormats(s) : TRUE
                   /\ pc' = "build_paths"
                   /\ UNCHANGED err
    /\ UNCHANGED <<args, mbi_xnat, PATH, connected, matched_sessions, si,
                   scans_iter, ci, dirs, staging, files, downloads, invoked,
                   failures, warnings, num_sessions, num_scans, outcome>>

\* parts[:2]
FirstTwo(parts) == SubSeq(parts, 1, IF Len(parts) < 2 THEN Len(parts) ELSE 2)

\* a subject-grouped layout without the directory of the subject
TargetDirOfSuffix(subject_dirs, label) ==
    IF subject_dirs
    THEN LET parts == SplitUnderscore(label)
         IN  Join(download_dir, parts[Len(parts)])
    ELSE Join(download_dir, label)

\* lines 120-125
TargetDir(subject_dirs, label) ==
    IF subject_dirs
    THEN LET parts == SplitUnderscore(label)
         IN  Join(Join(download_dir, JoinUnderscore(FirstTwo(parts))),
                  parts[Len(parts)])
    ELSE Join(download_dir, label)

\* os.makedirs(target_dir): the directories it creates under download_dir
MadeDirs(subject_dirs, label) ==
    IF subject_dirs
    THEN {Join(download_dir, JoinUnderscore(FirstTwo(SplitUnderscore(label)))),
          TargetDir(subject_dirs, label)}
    ELSE {TargetDir(subject_dirs, label)}

\* lines 131-134: the registry key whose extension the target gets
TargetExtKey(convert_to, fmt) ==
    IF convert_to # None THEN Upper(convert_to) ELSE fmt

(***************************************************************************)
(* Lines 119-137: the target directory is made and the paths are built.    *)
(***************************************************************************)
BuildPaths ==
    /\ pc = "build_paths"
    /\ LET target_dir == TargetDir(args.subject_dirs, session_label)
           key == TargetExtKey(args.convert_to, data_format)
       IN  /\ dirs' = dirs \cup MadeDirs(args.subject_dirs, session_label)
           /\ IF key \notin DOMAIN data_format_exts
              THEN Raise("KeyError") /\ UNCHANGED loc
              ELSE LET target_ext == data_format_exts[key]
                       target_path == Join(target_dir, loc.scan_label \o target_ext)
                   IN  /\ loc' = [loc EXCEPT
                                    !.target_dir = target_dir,
                                    !.target_ext = target_ext,
                                    !.target_path = target_path,
                                    !.tmp_dir = target_path \o
                                        <<".", "d", "o", "w", "n", "l", "o", "a", "d">>]
                       /\ pc' = "download"
                       /\ UNCHANGED err
    /\ UNCHANGED <<args, mbi_xnat, PATH, connected, matched_sessions, si,
                   scans_iter, ci, scan, data_format, staging, files,
                   downloads, invoked, failures, warnings, num_sessions, num_scans,
                   outcome>>

(***************************************************************************)
(* Lines 138-149: the resource is downloaded into the staging directory.   *)
(***************************************************************************)
StageDownload ==
    /\ pc = "download"
    /\ IF data_format \notin scan.v.resources
       THEN Raise("KeyError") /\ UNCHANGED <<staging, downloads>>
       ELSE /\ staging' = staging \cup {loc.tmp_dir}
            /\ downloads' = Append(downloads,
                                   [session |-> session_label, id |-> scan.v.id,
                                    format |-> data_format])
            /\ pc' = "select_converter"
            /\ UNCHANGED err
    /\ UNCHANGED <<args, mbi_xnat, PATH, connected, matched_sessions, si,
                   scans_iter, ci, scan, data_format, loc, dirs, files,
                   invoked, failures, warnings, num_sessions, num_scans, outcome>>

\* a forced converter that leaves the other converter usable
SelectedConvertersKeepOther(converter, dcm2niix, mrconvert) ==
    IF converter = "dcm2niix" /\ dcm2niix = None
    THEN [raise |-> "XnatUtilsUsageError", dcm2niix |-> None, mrconvert |-> None]
    ELSE IF converter = "mrconvert" /\ mrconvert = None
    THEN [raise |-> "XnatUtilsUsageError", dcm2niix |-> None, mrconvert |-> None]
    ELSE IF converter \notin {None, "dcm2niix", "mrconvert"}
    THEN [raise |-> "AssertionError", dcm2niix |-> None, mrconvert |-> None]
    ELSE [raise |-> None, dcm2niix |-> dcm2niix, mrconvert |-> mrconvert]

\* lines 153-168: the converters left usable by the caller's choice, given the
\* lookups dcm2niix and mrconvert; raise names the exception raised instead
SelectedConverters(converter, dcm2niix, mrconvert) ==
    IF converter = "dcm2niix"
    THEN IF dcm2niix = None
         THEN [raise |-> "XnatUtilsUsageError", dcm2niix |-> None, mrconvert |-> None]
         ELSE [raise |-> None, dcm2niix |-> dcm2niix, mrconvert |-> None]
    ELSE IF converter = "mrconvert"
    THEN IF mrconvert = None
         THEN [raise |-> "XnatUtilsUsageError", dcm2niix |-> None, mrconvert |-> None]
         ELSE [raise |-> None, dcm2niix |-> None, mrconvert |-> mrconvert]
    ELSE IF converter # None
    THEN [raise |-> "AssertionError", dcm2niix |-> None, mrconvert |-> None]
    ELSE [raise |-> None, dcm2niix |-> dcm2niix, mrconvert |-> mrconvert]

(***************************************************************************)
(* Lines 151-168: the converters are looked up and a forced one is         *)
(* checked.                                                                *)
(***************************************************************************)
SelectConverter ==
    /\ pc = "select_converter"
    /\ LET r == SelectedConverters(args.converter,
                                   find_executable(PATH, "dcm2niix"),
                                   find_executable(PATH, "mrconvert"))
       IN  IF r.raise # None
           THEN Raise(r.raise) /\ UNCHANGED loc
           ELSE /\ loc' = [loc EXCEPT !.dcm2niix = r.dcm2niix,
                                      !.mrconvert = r.mrconvert]
                /\ pc' = "convert"
                /\ UNCHANGED err
    /\ UNCHANGED <<args, mbi_xnat, PATH, connected, matched_sessions, si,
                   scans_iter, ci, scan, data_format, dirs, staging, files,
                   downloads, invoked, failures, warnings, num_sessions,
                   num_scans, outcome>>

\* an artifact at path, deposited for the scan the loop is at
Artifact(path, kind) ==
    [path |-> path, kind |-> kind, session |-> session_label,
     id |-> scan.v.id, format |-> data_format]

\* line 170-171
NoConversion == args.convert_to = None \/ Upper(args.convert_to) = data_format

\* line 187-188
UseDcm2niix ==
    /\ args.convert_to \in {"nifti", "nifti_gz"}
    /\ data_format = "DICOM"
    /\ loc.dcm2niix # None

\* line 196
UseMrconvert == loc.mrconvert # None

\* line 192
zip_opt == IF args.convert_to = "nifti_gz" THEN "y" ELSE "n"

\* the file dcm2niix writes for '-z zip -o target_dir -f scan_label'
Dcm2niixOutput(zip) ==
    Join(loc.target_dir,
         loc.scan_label \o data_format_exts[IF zip = "y" THEN "NIFTI_GZ" ELSE "NIFTI"])

\* the exit statuses of a converter process
ExitStatuses == {0, 1}

(***************************************************************************)
(* Lines 169-208: the body of the try statement.  A converter that exits   *)
(* with a non-zero status raises CalledProcessError, which line 209        *)
(* catches.                                                                *)
(***************************************************************************)
Convert ==
    /\ pc = "convert"
    /\ IF NoConversion
       THEN /\ files' = files \cup
                  {Artifact(loc.target_path,
                            IF args.strip_name /\ data_format \in {"DICOM", "secondary"}
                            THEN "stripped" ELSE "source")}
            /\ pc' = "cleanup"
            /\ UNCHANGED <<err, invoked, failures>>
       ELSE IF UseDcm2niix
       THEN /\ invoked' = Append(invoked,
                                 [tool |-> "dcm2niix", exe |-> loc.dcm2niix,
                                  z |-> zip_opt, session |-> session_label,
                                  id |-> scan.v.id])
            /\ \E status \in ExitStatuses :
                  IF status = 0
                  THEN /\ files' = files \cup
                             {Artifact(Dcm2niixOutput(zip_opt), "converted")}
                       /\ pc' = "cleanup"
                       /\ UNCHANGED failures
                  ELSE /\ pc' = "recover"
                       /\ failures' = Append(failures,
                                             [session |-> session_label,
                                              id |-> scan.v.id])
                       /\ UNCHANGED files
            /\ UNCHANGED err
       ELSE IF UseMrconvert
       THEN /\ invoked' = Append(invoked,
                                 [tool |-> "mrconvert", exe |-> loc.mrconvert,
                                  z |-> None, session |-> session_label,
                                  id |-> scan.v.id])
            /\ \E status \in ExitStatuses :
                  IF status = 0
                  THEN /\ files' = files \cup
                             {Artifact(loc.target_path, "converted")}
                       /\ pc' = "cleanup"
                       /\ UNCHANGED failures
                  ELSE /\ pc' = "recover"
                       /\ failures' = Append(failures,
                                             [session |-> session_label,
                                              id |-> scan.v.id])
                       /\ UNCHANGED files
            /\ UNCHANGED err
       ELSE /\ IF data_format = "DICOM" /\ args.convert_to \in {"nifti", "nifti_gz"}
               THEN Raise("XnatUtilsUsageError")
               ELSE Raise("UnboundLocalError")
            /\ UNCHANGED <<files, invoked, failures>>
    /\ UNCHANGED <<args, mbi_xnat, PATH, connected, matched_sessions, si,
                   scans_iter, ci, scan, data_format, loc, dirs, staging,
                   downloads, warnings, num_sessions, num_scans, outcome>>

(***************************************************************************)
(* Lines 209-216: the handler of CalledProcessError.                       *)
(***************************************************************************)
Recover ==
    /\ pc = "recover"
    /\ IF data_format \notin DOMAIN data_format_exts
       THEN Raise("KeyError") /\ UNCHANGED <<files, warnings>>
       ELSE /\ files' = files \cup
                  {Artifact(Join(loc.target_dir,
                                 loc.scan_label \o data_format_exts[data_format]),
                            "source")}
            /\ warnings' = Append(warnings,
                                  [session |-> session_label, id |-> scan.v.id,
                                   type |-> scan.v.type,
                                   convert_to |-> args.convert_to])
            /\ pc' = "cleanup"
            /\ UNCHANGED err
    /\ UNCHANGED <<args, mbi_xnat, PATH, connected, matched_sessions, si,
                   scans_iter, ci, scan, data_format, loc, dirs, staging,
                   downloads, invoked, failures, num_sessions, num_scans,
                   outcome>>

\* a cleanup that leaves the download directory of a scan whose conversion
\* failed
RmtreeUnlessRecovered(existing, tmp_dir) ==
    IF \E k \in 1..Len(failures) :
          failures[k] = [session |-> session_label, id |-> scan.v.id]
    THEN existing
    ELSE existing \ {tmp_dir}

\* line 218: shutil.rmtree(tmp_dir)
Rmtree(existing, tmp_dir) == existing \ {tmp_dir}

\* a cleanup that counts only the scans whose conversion did not fail
CleanupSkipsRecovered ==
    /\ pc = "cleanup"
    /\ staging' = Rmtree(staging, loc.tmp_dir)
    /\ num_scans' = IF \E k \in 1..Len(failures) :
                          failures[k] = [session |-> session_label,
                                         id |-> scan.v.id]
                    THEN num_scans
                    ELSE num_scans + 1
    /\ ci' = ci + 1
    /\ pc' = "scan"
    /\ UNCHANGED <<args, mbi_xnat, PATH, err, connected, matched_sessions, si,
                   scans_iter, scan, data_format, loc, dirs, files, downloads,
                   invoked, failures, warnings, num_sessions, outcome>>

(***************************************************************************)
(* Lines 217-219: the staging directory is removed, the scan is counted.   *)
(***************************************************************************)
Cleanup ==
    /\ pc = "cleanup"
    /\ staging' = Rmtree(staging, loc.tmp_dir)
    /\ num_scans' = num_scans + 1
    /\ ci' = ci + 1
    /\ pc' = "scan"
    /\ UNCHANGED <<args, mbi_xnat, PATH, err, connected, matched_sessions, si,
                   scans_iter, scan, data_format, loc, dirs, files, downloads,
                   invoked, failures, warnings, num_sessions, outcome>>

(***************************************************************************)
(* Lines 221-227: the report.                                              *)
(***************************************************************************)
Aggregate ==
    /\ pc = "aggregate"
    /\ outcome' = IF num_scans = 0
                  THEN [kind |-> "no scans matched", scans |-> 0, sessions |-> 0]
                  ELSE [kind |-> "success", scans |-> num_scans,
                        sessions |-> num_sessions]
    /\ pc' = "done"
    /\ UNCHANGED <<args, mbi_xnat, PATH, err, connected, matched_sessions, si,
                   scans_iter, ci, scan, data_format, loc, dirs, staging,
                   files, downloads, invoked, failures, warnings, num_sessions,
                   num_scans>>

(***************************************************************************)
(* ls(xnat_id, datatype): args is [xnat_id, datatype], the local datatype  *)
(* is loc.datatype, and the value returned is outcome.value.               *)
(***************************************************************************)
getState == <<matched_sessions, si, scans_iter, ci, scan, data_format, dirs,
              staging, files, downloads, invoked, failures, warnings,
              num_sessions, num_scans>>

\* the level inferred from the first id alone
DatatypeOfFirstId(xnat_id) ==
    LET num_underscores == CountUnderscores(xnat_id[1])
    IN  CASE num_underscores = 0 -> "subject"
          [] num_underscores = 1 -> "session"
          [] num_underscores = 2 -> "scan"
          [] OTHER -> None

\* max(i.count('_') for i in xnat_id)
MaxUnderscores(xnat_id) ==
    CHOOSE n \in {CountUnderscores(xnat_id[k]) : k \in 1..Len(xnat_id)} :
        \A k \in 1..Len(xnat_id) : CountUnderscores(xnat_id[k]) <= n

\* lines 276-286: the level inferred from literal ids, None for the usage
\* error
InferredDatatype(xnat_id) ==
    LET num_underscores == MaxUnderscores(xnat_id)
    IN  CASE num_underscores = 0 -> "subject"
          [] num_underscores = 1 -> "session"
          [] num_underscores = 2 -> "scan"
          [] OTHER -> None

(***************************************************************************)
(* Lines 267-298: the level to list is inferred or validated.              *)
(***************************************************************************)
LsInfer ==
    /\ pc = "ls"
    /\ LET ok(d) == /\ loc' = [datatype |-> d]
                    /\ pc' = "ls_connect"
                    /\ UNCHANGED err
           usage == Raise("XnatUtilsUsageError") /\ UNCHANGED loc
       IN  IF args.datatype = None
           THEN IF Len(args.xnat_id) = 0
                THEN ok("project")
                ELSE IF is_regex(args.xnat_id)
                THEN usage
                ELSE IF InferredDatatype(args.xnat_id) = None
                THEN usage
                ELSE ok(InferredDatatype(args.xnat_id))
           ELSE IF args.datatype = "project"
           THEN IF Len(args.xnat_id) # 0 THEN usage ELSE ok(args.datatype)
           ELSE IF Len(args.xnat_id) = 0 THEN usage ELSE ok(args.datatype)
    /\ UNCHANGED <<args, mbi_xnat, PATH, connected, outcome, getState>>

\* lines 313-320: the scan types of the given sessions, from the k-th on
RECURSIVE ScanTypesOf(_, _, _, _)
ScanTypesOf(sessions, k, scans, calls) ==
    IF k > Len(sessions)
    THEN [status |-> "ok", scans |-> scans, calls |-> calls]
    ELSE IF ~ HasExperiment(mbi_xnat, sessions[k])
    THEN [status |-> "KeyError", scans |-> {}, calls |-> calls]
    ELSE LET path == <<"experiments", sessions[k], "scans">>
             r == list_results(mbi_xnat, path)
         IN  IF r.status = "ok"
             THEN ScanTypesOf(sessions, k + 1, scans \cup SeqToSet(r.results),
                              Append(calls, path))
             ELSE [status |-> r.status, scans |-> {}, calls |-> Append(calls, path)]

(***************************************************************************)
(* Lines 300-322: connect and list.                                        *)
(***************************************************************************)
LsList ==
    /\ pc = "ls_connect"
    /\ connected' = TRUE
    /\ LET return(list, calls) ==
               /\ outcome' = [kind |-> "returned", value |-> Sorted(list),
                              calls |-> calls]
               /\ pc' = "done"
               /\ UNCHANGED err
           raise(e, calls) ==
               /\ Raise(e)
               /\ outcome' = [kind |-> None, value |-> <<>>, calls |-> calls]
           listing(r) ==
               IF r.status = "ok"
               THEN \E lst \in r.lists : return(lst, r.calls)
               ELSE raise(r.status, r.calls)
       IN  CASE loc.datatype = "project" ->
                  LET r == list_results(mbi_xnat, <<"projects">>)
                  IN  IF r.status = "ok" THEN return(r.results, <<r.path>>)
                      ELSE raise(r.status, <<r.path>>)
             [] loc.datatype = "subject" ->
                  listing(matching_subjects(mbi_xnat, args.xnat_id))
             [] loc.datatype = "session" ->
                  listing(matching_sessions(mbi_xnat, args.xnat_id))
             [] loc.datatype = "scan" ->
                  IF ~ is_regex(args.xnat_id) /\ Len(args.xnat_id) = 1
                  THEN IF ~ HasExperiment(mbi_xnat, args.xnat_id[1])
                       THEN raise("KeyError", <<>>)
                       ELSE LET path == <<"experiments", args.xnat_id[1], "scans">>
                                r == list_results(mbi_xnat, path)
                            IN  IF r.status = "ok" THEN return(r.results, <<path>>)
                                ELSE raise(r.status, <<path>>)
                  ELSE LET m == matching_sessions(mbi_xnat, args.xnat_id)
                       IN  IF m.status # "ok" THEN raise(m.status, m.calls)
                           ELSE \E lst \in m.lists :
                                   LET r == ScanTypesOf(lst, 1, {}, m.calls)
                                   IN  IF r.status = "ok"
                                       THEN \E out \in Orderings(r.scans) :
                                               return(out, r.calls)
                                       ELSE raise(r.status, r.calls)
             [] OTHER -> raise("AssertionError", <<>>)
    /\ UNCHANGED <<args, mbi_xnat, PATH, loc, getState>>

(***************************************************************************)
(* The calls of get() the model runs.                                      *)
(***************************************************************************)
ScanT1 == [id |-> <<"1">>, type |-> <<"t", "1">>,
           resources |-> {"DICOM", "SNAPSHOTS"}]
ScanT2 == [id |-> <<"2">>, type |-> <<"t", "-", "2">>, resources |-> {"MRTRIX"}]
ScanT3 == [id |-> <<"5">>, type |-> <<"t", "3">>, resources |-> {"DICOM"}]
ScanD  == [id |-> <<"3">>, type |-> <<"d">>, resources |-> {"DICOM", "NIFTI"}]
ScanX  == [id |-> <<"4">>, type |-> <<"x">>, resources |-> {"SNAPSHOTS"}]

\* the lists without repetition of at most n members of pool
ScanLists(pool, n) ==
    UNION {Orderings(S) : S \in {T \in SUBSET pool : Cardinality(T) <= n}}

\* project p with the subjects p_s and p_t and one session of each
Archive(scans1, scans2) ==
    [projects |-> << <<"p">> >>,
     subjects |-> <<[label |-> <<"p", "_", "s">>, project |-> <<"p">>],
                    [label |-> <<"p", "_", "t">>, project |-> <<"p">>]>>,
     experiments |->
        <<[label |-> <<"p", "_", "s", "_", "m">>, project |-> <<"p">>,
           subject |-> <<"p", "_", "s">>, scans |-> scans1],
          [label |-> <<"p", "_", "t", "_", "n">>, project |-> <<"p">>,
           subject |-> <<"p", "_", "t">>, scans |-> scans2]>>,
     fault |-> "none"]

\* the archives that hold at most MaxScans scans, all of pool
Archives(pool) ==
    {Archive(l1, l2) : <<l1, l2>> \in
        {q \in ScanLists(pool, MaxScans) \X ScanLists(pool, MaxScans) :
            Len(q[1]) + Len(q[2]) <= MaxScans}}

NoPatterns == [k |-> "none"]
Patterns(v) == [k |-> "patterns", v |-> v]

Dir(prefix, names) == [prefix |-> prefix, names |-> names]

\* runs that vary the archive, the sessions asked for, the scan filter and the
\* layout
SelectionRuns ==
    [session      : {<< <<"p">> >>, << <<"p", "_", "s", "_", "m">> >>,
                     << <<"p", "_", ".", "*">> >>, << <<"x", ".", "*">> >>},
     scan         : {NoPatterns,
                     Patterns(<< <<"t", ".", "*">> >>),
                     Patterns(<< <<"t">> >>),
                     Patterns(<< <<"d">>, <<"t", "1">> >>)},
     data_format  : {None, "dicom"},
     convert_to   : {None},
     converter    : {None},
     subject_dirs : BOOLEAN,
     strip_name   : BOOLEAN,
     archive      : Archives({ScanT1, ScanT2, ScanD, ScanX}),
     PATH         : {<<Dir("/a", {"dcm2niix", "mrconvert"})>>}]

\* runs that vary the conversion asked for and the converters installed
ConversionRuns ==
    [session      : {<< <<"p">> >>},
     scan         : {NoPatterns},
     data_format  : {None, "dicom"},
     convert_to   : {None, "nifti", "nifti_gz", "NIFTI_GZ", "dicom"},
     converter    : {None, "dcm2niix", "mrconvert"},
     subject_dirs : {FALSE},
     strip_name   : {FALSE},
     archive      : Archives({ScanT1, ScanT2, ScanT3}),
     PATH         : {<<Dir("/a", {})>>,
                     <<Dir("/a", {"dcm2niix"}), Dir("/b", {"dcm2niix"})>>,
                     <<Dir("/a", {"mrconvert"})>>,
                     <<Dir("/a", {"dcm2niix", "mrconvert"}), Dir("/b", {})>>}]

Runs == SelectionRuns \cup ConversionRuns

Init ==
    \E run \in Runs :
        /\ args = [session |-> run.session, scan |-> run.scan,
                   data_format |-> run.data_format,
                   convert_to |-> run.convert_to, converter |-> run.converter,
                   subject_dirs |-> run.subject_dirs,
                   strip_name |-> run.strip_name]
        /\ mbi_xnat = run.archive
        /\ PATH = run.PATH
        /\ pc = "start"
        /\ err = NoError
        /\ connected = FALSE
        /\ matched_sessions = <<>>
        /\ si = 0
        /\ scans_iter = <<>>
        /\ ci = 0
        /\ scan = run.scan
        /\ data_format = run.data_format
        /\ loc = NoLocals
        /\ dirs = {}
        /\ staging = {}
        /\ files = {}
        /\ downloads = <<>>
        /\ invoked = <<>>
        /\ failures = <<>>
        /\ warnings = <<>>
        /\ num_sessions = 0
        /\ num_scans = 0
        /\ outcome = [kind |-> None, scans |-> 0, sessions |-> 0]

Next ==
    \/ GetResolve
    \/ GetNextSession
    \/ GetEndSession
    \/ SelectFormat
    \/ BuildPaths
    \/ StageDownload
    \/ SelectConverter
    \/ Convert
    \/ Recover
    \/ Cleanup
    \/ Aggregate

Spec == Init /\ [][Next]_vars

(***************************************************************************)
(* Properties of get().                                                    *)
(***************************************************************************)
\* the loop variable scan is bound to a scan of the session the loop is at
ScanBound == scan.k = "object"

\* the scan of a session with the given id
ScanOf(label, id) ==
    CHOOSE s \in SeqToSet(Experiment(mbi_xnat, label).scans) : s.id = id

\* the scans of a session that the caller's patterns select: all of them for
\* no patterns, else those whose whole type one of the patterns matches
SelectedScans(label) ==
    LET anchored(s) ==
            \E k \in 1..Len(args.scan.v) :
                Len(s.type) + 1 \in MatchEnds(args.scan.v[k], 1, s.type, 1)
    IN  IF args.scan.k = "none"
        THEN Experiment(mbi_xnat, label).scans
        ELSE SelectSeq(Experiment(mbi_xnat, label).scans, anchored)

\* C1: with no data format requested, every scan the loop binds either has
\* exactly one registry label among its own resources, and that label is the
\* format used for it, or the run has failed with a usage error.
C1_FormatOfEveryScan ==
    (args.data_format = None /\ ScanBound) =>
        IF Cardinality(KnownFormats(scan.v)) = 1
        THEN data_format \in KnownFormats(scan.v)
        ELSE pc = "raised" /\ err.type = "XnatUtilsUsageError"

\* the path the unconverted source of a scan is expected at
RawPath(label, id) ==
    LET fmt == (CHOOSE d \in SeqToSet(downloads) :
                    d.session = label /\ d.id = id).format
    IN  Join(TargetDir(args.subject_dirs, label),
             id \o <<"-">> \o Sanitize(ScanOf(label, id).type)
                \o data_format_exts[fmt])

\* the number of scans selected in all the matched sessions
RECURSIVE SelectedCount(_)
SelectedCount(k) ==
    IF k = 0 THEN 0
    ELSE SelectedCount(k - 1) + Len(SelectedScans(matched_sessions[k]))

\* C2: once a converter has exited non-zero and the failure has been handled,
\* the run is not aborted, the unconverted source lies at
\* {targetDir}/{scanId}-{sanitizedType}{sourceExt}, exactly one warning names
\* the scan, and the run ends having processed every selected scan of every
\* matched session.
C2_ConversionFailureRecovered ==
    \A k \in 1..Len(failures) :
        (k < Len(failures) \/ pc # "recover") =>
            /\ pc # "raised"
            /\ \E a \in files :
                  /\ a.session = failures[k].session
                  /\ a.id = failures[k].id
                  /\ a.kind = "source"
                  /\ a.path = RawPath(failures[k].session, failures[k].id)
            /\ Cardinality({j \in 1..Len(warnings) :
                              /\ warnings[j].session = failures[k].session
                              /\ warnings[j].id = failures[k].id}) = 1
            /\ pc = "done" =>
                  /\ num_sessions = Len(matched_sessions)
                  /\ num_scans = SelectedCount(Len(matched_sessions))
                  /\ Len(downloads) = num_scans

\* C3: the staging directory of a scan exists only from its download to its
\* cleanup: it is gone when the loop moves on, after a success and after a
\* recovered conversion failure, no download starts while one exists, and at
\* no point does more than one exist.
C3_StagingRemoved ==
    /\ Cardinality(staging) <= 1
    /\ pc \in {"scan", "session", "build_paths", "download", "aggregate", "done"}
          => staging = {}
    /\ pc \in {"select_converter", "convert", "recover", "cleanup"}
          => staging = {loc.tmp_dir}

\* a second scan is staged after the first one's conversion failed and was
\* recovered
C3_Witness ==
    /\ Len(failures) = 1
    /\ Len(warnings) = 1
    /\ num_scans = 1
    /\ pc = "convert"
    /\ staging = {loc.tmp_dir}

\* C4: when the run is aborted by a usage error for a scan (format selection,
\* forced converter, no converter), the run has written nothing for that scan:
\* no staging directory, no file, and no target directory unless an earlier
\* scan of the session made it.
C4_NothingWrittenOnUsageError ==
    (/\ pc = "raised"
     /\ err.type = "XnatUtilsUsageError"
     /\ err.at \in {"scan", "select_converter", "convert"}) =>
        /\ staging = {}
        /\ ~ \E a \in files : a.session = session_label /\ a.id = scan.v.id
        /\ TargetDir(args.subject_dirs, session_label) \in dirs =>
              \E k \in 1..Len(downloads) :
                  /\ downloads[k].session = session_label
                  /\ downloads[k].id # scan.v.id

\* the try statement of lines 169-208 has run for the scan the loop is at
ConvertDone ==
    \/ pc \in {"cleanup", "recover"}
    \/ pc = "raised" /\ err.at = "convert"

\* the converter runs for the scan the loop is at
CallsForScan ==
    {k \in 1..Len(invoked) :
        invoked[k].session = session_label /\ invoked[k].id = scan.v.id}

\* a DICOM source, NIfTI or gzipped NIfTI requested in any letter case,
\* dcm2niix on the path and no other converter forced
Dcm2niixCase ==
    /\ data_format = "DICOM"
    /\ args.convert_to # None
    /\ Upper(args.convert_to) \in {"NIFTI", "NIFTI_GZ"}
    /\ find_executable(PATH, "dcm2niix") # None
    /\ args.converter \in {None, "dcm2niix"}

\* C5: in the dcm2niix case exactly dcm2niix is run, with -z y exactly for a
\* gzipped NIfTI request; otherwise only mrconvert is ever run, and only if it
\* is on the path; with no conversion required nothing is run.
C5_ConverterChoice ==
    ConvertDone =>
        /\ Dcm2niixCase =>
              /\ Cardinality(CallsForScan) = 1
              /\ \A k \in CallsForScan :
                    /\ invoked[k].tool = "dcm2niix"
                    /\ invoked[k].z = IF Upper(args.convert_to) = "NIFTI_GZ"
                                      THEN "y" ELSE "n"
        /\ ~ Dcm2niixCase =>
              \A k \in CallsForScan :
                  /\ invoked[k].tool = "mrconvert"
                  /\ find_executable(PATH, "mrconvert") # None
        /\ (args.convert_to = None \/ Upper(args.convert_to) = data_format) =>
              CallsForScan = {}

\* C6: a required conversion for which no converter is usable ends the run
\* with XnatUtilsUsageError and with no other exception, whatever the formats.
C6_NoConverterIsUsageError ==
    (pc = "raised" /\ err.at = "convert") => err.type = "XnatUtilsUsageError"

\* the caller forced a converter
Forced == args.converter \in {"dcm2niix", "mrconvert"}

\* C7: a forced converter that is not on the path ends the run with a usage
\* error at the first scan, before any converter is run; a forced converter
\* that is on the path is the only converter the run ever runs.
C7_ForcedConverter ==
    /\ (Forced /\ find_executable(PATH, args.converter) = None) =>
          /\ invoked = <<>>
          /\ pc \notin {"convert", "recover", "cleanup"}
          /\ num_scans = 0
          /\ (pc = "raised" /\ err.at = "select_converter") =>
                err.type = "XnatUtilsUsageError"
    /\ (Forced /\ find_executable(PATH, args.converter) # None) =>
          \A k \in 1..Len(invoked) : invoked[k].tool = args.converter

\* mrconvert is forced and run for a DICOM to NIfTI conversion although
\* dcm2niix is on the path too
C7_Witness ==
    /\ args.converter = "mrconvert"
    /\ find_executable(PATH, "dcm2niix") # None
    /\ data_format = "DICOM"
    /\ args.convert_to = "nifti_gz"
    /\ Len(invoked) = 1
    /\ invoked[1].tool = "mrconvert"

\* C8: the scans the inner loop iterates over are, in every session, exactly
\* the scans of that session that the caller's patterns select, and no
\* session fails on the filter.
C8_FilterOfEverySession ==
    /\ (pc \in {"scan", "build_paths", "download", "select_converter",
                "convert", "recover", "cleanup"}
        \/ (pc = "raised" /\ err.at \notin {"start", "session"}))
          => scans_iter = SelectedScans(session_label)
    /\ (pc = "raised" /\ err.at = "session") => err.type # "TypeError"

\* the downloads whose staging directory has been removed again
CleanedUp == Len(downloads) - Cardinality(staging)

\* C13: when get() completes, the scan count reported is the number of scans
\* whose staging directory was cleaned up, converted or moved scans plus
\* recovered conversion failures, and the session count is the number of
\* sessions iterated; the run reports "no scans matched" exactly when that
\* number of scans is zero and success with the counts otherwise.
C13_ReportedCounts ==
    pc = "done" =>
        /\ outcome.kind \in {"no scans matched", "success"}
        /\ outcome.kind = "no scans matched" <=> CleanedUp = 0
        /\ outcome.kind = "success" =>
              /\ outcome.scans = CleanedUp
              /\ outcome.scans > 0
              /\ outcome.scans =
                    (Len(downloads) - Len(failures)) + Len(warnings)
              /\ outcome.sessions = Len(matched_sessions)

\* a run has completed with a converted scan and a recovered conversion
\* failure, over two sessions
C13_Witness ==
    /\ pc = "done"
    /\ outcome.kind = "success"
    /\ outcome.scans = 2
    /\ outcome.sessions = 2
    /\ Len(failures) = 1
    /\ Len(warnings) = 1

\* the conversion of the scan of an artifact failed
ConversionFailed(a) ==
    \E k \in 1..Len(failures) :
        failures[k] = [session |-> a.session, id |-> a.id]

\* {root}/{sessionLabel} or {root}/{project}_{subject}/{sessionSuffix}, the
\* subject's label and the rest of the session's label taken from the archive
LayoutDir(label) ==
    LET subject == Experiment(mbi_xnat, label).subject
        suffix == SubSeq(label, Len(subject) + 2, Len(label))
    IN  IF args.subject_dirs
        THEN download_dir \o <<"/">> \o subject \o <<"/">> \o suffix
        ELSE download_dir \o <<"/">> \o label

\* the path the layout gives the artifact of a scan
LayoutPath(a) ==
    LET ext == IF args.convert_to # None
               THEN data_format_exts[Upper(args.convert_to)]
               ELSE data_format_exts[a.format]
    IN  LayoutDir(a.session) \o <<"/">> \o a.id \o <<"-">>
            \o Sanitize(ScanOf(a.session, a.id).type) \o ext

\* C14: the artifact of every scan processed without a conversion failure is
\* at {root}/{sessionLabel}/{scanId}-{sanitizedType}{ext}, or under
\* {root}/{project}_{subject}/{sessionSuffix} in the subject-grouped layout,
\* with the extension of the requested conversion format or else of the source
\* format; artifacts of distinct (session, scan id) pairs are at distinct
\* paths.
C14_TargetPaths ==
    /\ \A a \in files : ~ ConversionFailed(a) => a.path = LayoutPath(a)
    /\ \A a, b \in files :
          <<a.session, a.id>> # <<b.session, b.id>> => a.path # b.path

\* two scans of a session have been deposited in the subject-grouped layout
C14_Witness ==
    /\ args.subject_dirs
    /\ \E a, b \in files :
          /\ a.session = b.session
          /\ a.id # b.id
          /\ a.path = <<"r", "/", "p", "_", "s", "/", "m", "/">> \o a.id
                         \o <<"-">> \o Sanitize(ScanOf(a.session, a.id).type)
                         \o data_format_exts[a.format]

\* a scan has been converted and deposited under the extension of the
\* conversion format
C14_WitnessConverted ==
    \E a \in files :
        /\ a.kind = "converted"
        /\ args.convert_to = "nifti_gz"
        /\ a.path = LayoutPath(a)

(***************************************************************************)
(* The calls of ls() the model runs.                                       *)
(***************************************************************************)
IdPool ==
    {<<"p">>, <<"q">>, <<"p", "_", "s">>, <<"p", "_", "s", "_", "m">>,
     <<"p", "_", "s", "_", "m", "_", "x">>, <<"p", ".", "*">>, <<"p", NL>>,
     <<>>}

\* the lists of at most n members of S
RECURSIVE ListsUpTo(_, _)
ListsUpTo(S, n) ==
    IF n = 0 THEN {<<>>}
    ELSE LET shorter == ListsUpTo(S, n - 1)
         IN  shorter \cup {Append(q, x) : q \in shorter, x \in S}

InitLs ==
    /\ args \in [xnat_id  : ListsUpTo(IdPool, MaxIds),
                 datatype : {None, "project", "subject", "session", "scan"}]
    /\ mbi_xnat = Archive(<<ScanT1, ScanT2>>, <<ScanT1, ScanD>>)
    /\ PATH = <<>>
    /\ pc = "ls"
    /\ err = NoError
    /\ connected = FALSE
    /\ matched_sessions = <<>>
    /\ si = 0
    /\ scans_iter = <<>>
    /\ ci = 0
    /\ scan = NoPatterns
    /\ data_format = None
    /\ loc = [datatype |-> None]
    /\ dirs = {}
    /\ staging = {}
    /\ files = {}
    /\ downloads = <<>>
    /\ invoked = <<>>
    /\ failures = <<>>
    /\ warnings = <<>>
    /\ num_sessions = 0
    /\ num_scans = 0
    /\ outcome = [kind |-> None, value |-> <<>>, calls |-> <<>>]

NextLs ==
    \/ LsInfer
    \/ LsList

SpecLs == InitLs /\ [][NextLs]_vars

(***************************************************************************)
(* Properties of ls() and of the classification of ids.                    *)
(***************************************************************************)
\* every id is a non-empty string of word characters
AllWord(ids) ==
    \A k \in 1..Len(ids) :
        Len(ids[k]) > 0 /\ \A l \in 1..Len(ids[k]) : ids[k][l] \in WordChars

UnderscoreCounts(ids) == {CountUnderscores(ids[k]) : k \in 1..Len(ids)}

\* ls() has inferred a level and gone on to connect
LsInferred(d) ==
    /\ \/ pc \in {"ls_connect", "done"}
       \/ pc = "raised" /\ err.at = "ls_connect"
    /\ loc.datatype = d

\* ls() has failed with a usage error before connecting
LsRefused ==
    /\ pc = "raised"
    /\ err = [type |-> "XnatUtilsUsageError", at |-> "ls"]
    /\ ~ connected
    /\ outcome.calls = <<>>

\* ls() was called with literal ids and no datatype, and has inferred or refused
LsLiteralNoHint ==
    /\ pc # "ls"
    /\ args.datatype = None
    /\ Len(args.xnat_id) > 0
    /\ AllWord(args.xnat_id)

\* C9 as claimed: the level follows the common underscore count of the ids,
\* and ids with more than 2 underscores or with differing counts are refused.
C9_LevelOfUniformCounts ==
    LsLiteralNoHint =>
        CASE UnderscoreCounts(args.xnat_id) = {0} -> LsInferred("subject")
          [] UnderscoreCounts(args.xnat_id) = {1} -> LsInferred("session")
          [] UnderscoreCounts(args.xnat_id) = {2} -> LsInferred("scan")
          [] OTHER -> LsRefused

\* C9 as amended: the level follows the largest underscore count of the ids
\* (0 subject, 1 session, 2 scan), and the ids are refused exactly when one of
\* them has more than 2 underscores; differing counts are not refused.
C9_LevelOfLargestCount ==
    LsLiteralNoHint =>
        LET most == MaxUnderscores(args.xnat_id)
        IN  CASE most = 0 -> LsInferred("subject")
              [] most = 1 -> LsInferred("session")
              [] most = 2 -> LsInferred("scan")
              [] OTHER -> LsRefused

\* ids with differing underscore counts, the smaller count first, have been
\* given the level of the larger count
C9_Witness ==
    /\ args.datatype = None
    /\ args.xnat_id = << <<"p">>, <<"p", "_", "s">> >>
    /\ pc = "ls_connect"
    /\ loc.datatype = "session"

\* C10: ids are classified as a pattern exactly when one of them is empty or
\* holds a character that is no word character, and ls() without a datatype
\* refuses such ids before it connects or lists anything.
C10_PatternIffNonWord ==
    (pc # "ls" /\ args.datatype = None /\ Len(args.xnat_id) > 0) =>
        /\ is_regex(args.xnat_id) <=> ~ AllWord(args.xnat_id)
        /\ ~ AllWord(args.xnat_id) => LsRefused

(***************************************************************************)
(* The calls of the resolvers the model runs: matching_sessions,           *)
(* matching_subjects and list_results on archives that answer or fail.     *)
(***************************************************************************)
\* XnatUtilsLookupError derives from XnatUtilsUsageError
UsageErrors == {"XnatUtilsUsageError", "XnatUtilsLookupError"}

\* a second project o beside p, with one subject and one session
ArchiveOfTwoProjects ==
    LET a == Archive(<<ScanT1>>, <<ScanT2>>)
    IN  [a EXCEPT
           !.projects = Append(@, <<"o">>),
           !.subjects = Append(@, [label |-> <<"o", "_", "u">>,
                                   project |-> <<"o">>]),
           !.experiments = Append(@, [label |-> <<"o", "_", "u", "_", "k">>,
                                      project |-> <<"o">>,
                                      subject |-> <<"o", "_", "u">>,
                                      scans |-> <<ScanT3>>])]

ResolveIdPool ==
    {<<"p">>, <<"q">>, <<"p", "_", "s">>, <<"p", "_", "t">>, <<"q", "_", "s">>,
     <<"p", "_", "s", "_", "m">>, <<"q", "_", "s", "_", "m">>,
     <<"p", "_", "s", "_", "m", "_", "x">>, <<"p", ".", "*">>}

ResolvePaths ==
    {<<"projects">>, <<"subjects">>, <<"experiments">>}
    \cup UNION {{<<"projects", id_, "subjects">>,
                 <<"projects", id_, "experiments">>,
                 <<"subjects", id_, "experiments">>,
                 <<"experiments", id_, "scans">>} :
                id_ \in {<<"p">>, <<"q">>, <<"p", "_", "s">>,
                         <<"p", "_", "s", "_", "m">>}}

ResolveCalls ==
    [fn : {"matching_sessions", "matching_subjects"},
     ids : ListsUpTo(ResolveIdPool, MaxIds), path : {<<>>}]
    \cup [fn : {"list_results"}, ids : {<<>>}, path : ResolvePaths]

InitResolve ==
    /\ args \in ResolveCalls
    /\ mbi_xnat \in {[a EXCEPT !.fault = f] :
                        a \in {Archive(<<>>, <<>>), ArchiveOfTwoProjects},
                        f \in {"none"} \cup RemoteMessages}
    /\ PATH = <<>>
    /\ pc = "resolve"
    /\ err = NoError
    /\ connected = TRUE
    /\ matched_sessions = <<>>
    /\ si = 0
    /\ scans_iter = <<>>
    /\ ci = 0
    /\ scan = NoPatterns
    /\ data_format = None
    /\ loc = [datatype |-> None]
    /\ dirs = {}
    /\ staging = {}
    /\ files = {}
    /\ downloads = <<>>
    /\ invoked = <<>>
    /\ failures = <<>>
    /\ warnings = <<>>
    /\ num_sessions = 0
    /\ num_scans = 0
    /\ outcome = [status |-> None]

\* one call of a resolver; outcome is what it returns or raises
Resolve ==
    /\ pc = "resolve"
    /\ outcome' = CASE args.fn = "matching_sessions" ->
                         matching_sessions(mbi_xnat, args.ids)
                    [] args.fn = "matching_subjects" ->
                         matching_subjects(mbi_xnat, args.ids)
                    [] args.fn = "list_results" ->
                         list_results(mbi_xnat, args.path)
    /\ pc' = "done"
    /\ UNCHANGED <<args, mbi_xnat, PATH, err, connected, loc, getState>>

NextResolve == Resolve

SpecResolve == InitResolve /\ [][NextResolve]_vars

(***************************************************************************)
(* Properties of the resolvers.                                            *)
(***************************************************************************)
Resolved(fn) == pc = "done" /\ args.fn = fn

\* the sessions a literal id stands for: those of the project, those of the
\* subject, or the id itself
SessionsOfId(id_) ==
    LET n == CountUnderscores(id_)
        exps == SeqToSet(mbi_xnat.experiments)
    IN  CASE n = 0 -> {e.label : e \in {x \in exps : x.project = id_}}
          [] n = 1 -> {e.label : e \in {x \in exps : x.subject = id_}}
          [] OTHER -> {id_}

\* the listing calls the ids from the k-th on stand for, in order
RECURSIVE ListingsOfIds(_, _)
ListingsOfIds(ids, k) ==
    IF k > Len(ids) THEN <<>>
    ELSE LET n == CountUnderscores(ids[k])
             own == CASE n = 0 -> << <<"projects", ids[k], "experiments">> >>
                      [] n = 1 -> << <<"subjects", ids[k], "experiments">> >>
                      [] OTHER -> <<>>
         IN  own \o ListingsOfIds(ids, k + 1)

\* the id names a project (no underscore) or a subject (one underscore) that
\* the archive does not hold
MissingForSessions(id_) ==
    \/ CountUnderscores(id_) = 0 /\ ~ HasProject(mbi_xnat, id_)
    \/ CountUnderscores(id_) = 1 /\ ~ HasSubject(mbi_xnat, id_)

\* the id is resolved by matching_sessions without an error
FineForSessions(id_) ==
    /\ CountUnderscores(id_) <= 2
    /\ ~ MissingForSessions(id_)

\* C11: matching_sessions resolves literal ids per underscore count: none is
\* the listing of that project's sessions, one the listing of that subject's
\* sessions, two the id itself without a listing call or a lookup, more than
\* two a usage error; the result is the union over the ids, each label once.
C11_LiteralSessionIds ==
    (Resolved("matching_sessions") /\ AllWord(args.ids)) =>
        LET ids == args.ids
            all == 1..Len(ids)
        IN  /\ (\E k \in all : CountUnderscores(ids[k]) > 2)
                  => outcome.status \in UsageErrors
            /\ (mbi_xnat.fault = "none" /\ \A k \in all : FineForSessions(ids[k]))
                  => /\ outcome.status = "ok"
                     /\ outcome.lists # {}
                     /\ \A l \in outcome.lists :
                           /\ SeqToSet(l) = UNION {SessionsOfId(ids[k]) : k \in all}
                           /\ Len(l) = Cardinality(SeqToSet(l))
                     /\ outcome.calls = ListingsOfIds(ids, 1)

\* a session id and the project that holds it have been resolved to the
\* project's sessions with the one listing call of the project
C11_Witness ==
    /\ Resolved("matching_sessions")
    /\ args.ids = << <<"p", "_", "s", "_", "m">>, <<"p">> >>
    /\ mbi_xnat.fault = "none"
    /\ Len(mbi_xnat.projects) = 2
    /\ outcome.status = "ok"
    /\ outcome.calls = << <<"projects", <<"p">>, "experiments">> >>

\* C12: a literal id that names a missing project or subject makes
\* matching_subjects and matching_sessions raise XnatUtilsUsageError naming
\* that id; list_results turns a remote failure with status 404 into
\* XnatUtilsLookupError carrying the path and any other remote failure into
\* XnatUtilsUsageError carrying the remote message.
C12_MissingIdsAndRemoteFailures ==
    /\ (Resolved("matching_sessions") /\ AllWord(args.ids)
        /\ mbi_xnat.fault = "none") =>
          \A k \in 1..Len(args.ids) :
             (/\ MissingForSessions(args.ids[k])
              /\ \A j \in 1..(k - 1) : FineForSessions(args.ids[j]))
                => /\ outcome.status = "XnatUtilsUsageError"
                   /\ outcome.error = [NoArgs EXCEPT !.id = args.ids[k]]
    /\ (Resolved("matching_subjects") /\ AllWord(args.ids)
        /\ mbi_xnat.fault = "none") =>
          \A k \in 1..Len(args.ids) :
             (/\ ~ HasProject(mbi_xnat, args.ids[k])
              /\ \A j \in 1..(k - 1) : HasProject(mbi_xnat, args.ids[j]))
                => /\ outcome.status = "XnatUtilsUsageError"
                   /\ outcome.error = [NoArgs EXCEPT !.id = args.ids[k]]
    /\ Resolved("list_results") =>
          /\ mbi_xnat.fault = "not found (status 404)"
                => /\ outcome.status = "XnatUtilsLookupError"
                   /\ outcome.error = [NoArgs EXCEPT !.path = args.path]
          /\ mbi_xnat.fault \in {"server error (status 500)",
                                 "gone (status 4040)", "status 404",
                                 "connection reset"}
                => /\ outcome.status = "XnatUtilsUsageError"
                   /\ outcome.error = [NoArgs EXCEPT !.msg = mbi_xnat.fault]
          /\ mbi_xnat.fault = "none"
                => \/ outcome.status = "ok" /\ outcome.error = NoArgs
                   \/ /\ outcome.status = "XnatUtilsLookupError"
                      /\ outcome.error = [NoArgs EXCEPT !.path = args.path]

\* matching_subjects has listed project p and then named the missing project q
C12_Witness ==
    /\ Resolved("matching_subjects")
    /\ args.ids = << <<"p">>, <<"q">> >>
    /\ mbi_xnat.fault = "none"
    /\ outcome.status = "XnatUtilsUsageError"
    /\ outcome.error.id = <<"q">>
    /\ Len(outcome.calls) = 2

\* list_results has turned a remote failure without a status 404 into a usage
\* error carrying the message
C12_WitnessRemote ==
    /\ Resolved("list_results")
    /\ mbi_xnat.fault = "server error (status 500)"
    /\ outcome.status = "XnatUtilsUsageError"

(***************************************************************************)
(* The calls of find_executable the model runs: a file system of three     *)
(* directories and every system path of at most MaxPathLen of them.        *)
(***************************************************************************)
Prefixes == {"/a", "/b", "/c"}
Executables == {"dcm2niix", "mrconvert"}

\* the system path that lists the directories of order in a file system
PathOf(fs, order) == [k \in 1..Len(order) |-> Dir(order[k], fs[order[k]])]

InitFind ==
    /\ args \in [fn : {"find_executable"}, name : Executables]
    /\ \E fs \in [Prefixes -> SUBSET Executables] :
          \E order \in ListsUpTo(Prefixes, MaxPathLen) :
             PATH = PathOf(fs, order)
    /\ mbi_xnat = Archive(<<>>, <<>>)
    /\ pc = "find"
    /\ err = NoError
    /\ connected = FALSE
    /\ matched_sessions = <<>>
    /\ si = 0
    /\ scans_iter = <<>>
    /\ ci = 0
    /\ scan = NoPatterns
    /\ data_format = None
    /\ loc = [datatype |-> None]
    /\ dirs = {}
    /\ staging = {}
    /\ files = {}
    /\ downloads = <<>>
    /\ invoked = <<>>
    /\ failures = <<>>
    /\ warnings = <<>>
    /\ num_sessions = 0
    /\ num_scans = 0
    /\ outcome = [path |-> None]

\* one call of find_executable; outcome.path is what it returns
FindExecutable ==
    /\ pc = "find"
    /\ outcome' = [path |-> find_executable(PATH, args.name)]
    /\ pc' = "done"
    /\ UNCHANGED <<args, mbi_xnat, PATH, err, connected, loc, getState>>

NextFind == FindExecutable

SpecFind == InitFind /\ [][NextFind]_vars

(***************************************************************************)
(* Properties of find_executable.                                          *)
(***************************************************************************)
\* the entries of the system path whose directory holds the name
EntriesHolding(name) == {k \in 1..Len(PATH) : name \in PATH[k].names}

\* C15: find_executable returns the candidate of the last entry of the system
\* path whose directory holds the name, and no path exactly when no entry
\* holds it.
C15_LastEntryWins ==
    (pc = "done" /\ args.fn = "find_executable") =>
        LET hits == EntriesHolding(args.name)
        IN  /\ outcome.path = None <=> hits = {}
            /\ hits # {} =>
                  LET last == CHOOSE k \in hits : \A j \in hits : j <= k
                  IN  outcome.path = PATH[last].prefix

\* two directories of the path hold the name and the later one was returned
C15_Witness ==
    /\ pc = "done"
    /\ args.fn = "find_executable"
    /\ \E j, k \in EntriesHolding(args.name) :
          /\ j < k
          /\ PATH[j].prefix # PATH[k].prefix
          /\ outcome.path = PATH[k].prefix

====
